---- MODULE Spec2Model ----
(***************************************************************************)
(* Model of update_catalog.py: a script that reads catalog.html, applies   *)
(* six guarded text-substitution rules to the text in memory, in order,    *)
(* and exits.                                                              *)
(*                                                                         *)
(* A text is a sequence of fragments.  Every string literal of the script  *)
(* is cut into fragments at the places where the literals share text with  *)
(* one another (the closing-brace line, the newline, the 8-space indent,   *)
(* the detector substrings), so that one literal occurs in a text exactly  *)
(* where its fragments occur consecutively:                                *)
(*   "PIH"  "        .product-image {\n" ... "height: 220px;\n"            *)
(*   "PIA"  "            position: relative;\n            overflow: hidden;\n" *)
(*   "IMH"  "        .product-image img {\n" ... "object-fit: contain;\n"  *)
(*   "IMA"  "            transition: opacity 0.3s ease;\n"                 *)
(*   "CL"   "        }"                                                    *)
(*   "NL"   "\n"                                                           *)
(*   "CSS"  carousel_css without its leading "\n" and without its final    *)
(*          "        }\n"                                                  *)
(*   "FEH"  "        const filterElements = {\n" ... "        };"          *)
(*   "LFB"  "        let filtersBound = false;"                            *)
(*   "IN8"  "        " (eight spaces)                                      *)
(*   "DCT"  "const carouselTimers"                                         *)
(*   "MAP"  " = new Map();"                                                *)
(*   "CFH"  "        function cacheFilterElements() {\n" ...               *)
(*          "('productsCount');\n"                                         *)
(*   "DFC"  "function clearCarouselTimers"                                 *)
(*   "FCB"  "() {\n" ... "carouselTimers.clear();\n"                       *)
(*   "PPH"  "        function productPrimaryImage(product) {\n" ...        *)
(*          "return 'psi.svg';\n"                                          *)
(*   "DGP"  "function getProductImages"                                    *)
(*   "GPB"  "(product) {\n" ... "pass\n"                                   *)
(*   "X"    any text that shares nothing with the literals                 *)
(***************************************************************************)
EXTENDS Integers, Sequences, FiniteSets, TLC

VARIABLES pc, exists, disk, text, input, reads, writes, bound6, changed

vars == <<pc, exists, disk, text, input, reads, writes, bound6, changed>>

(* Number of pieces an input document is assembled from. *)
MaxPieces == 3

------------------------------------------------------------------------------
(* The literals of the script. *)

original_block == <<"PIH", "CL">>

(* an after-block that does not keep the head of its before-block *)
updated_block_Rewritten == <<"PIA", "CL">>

updated_block == <<"PIH", "PIA", "CL">>

img_block == <<"IMH", "CL">>

img_updated == <<"IMH", "IMA", "CL">>

carousel_css == <<"NL", "CSS", "CL", "NL">>

marker == img_updated \o <<"NL">>

insert_point == <<"FEH", "NL", "NL", "LFB", "NL">>

carouselTimers_detector == <<"DCT">>

carouselTimers_decl == <<"NL", "IN8", "DCT", "MAP", "NL", "NL">>

cache_marker == <<"CFH", "CL", "NL", "NL">>

clearCarouselTimers_detector == <<"DFC">>

clearCarouselTimers_fn == <<"IN8", "DFC", "FCB", "CL", "NL", "NL">>

getProductImages_detector == <<"DGP">>

primary_marker == <<"PPH", "CL", "NL", "NL">>

get_images_fn == <<"IN8", "DGP", "GPB", "CL", "NL">>

------------------------------------------------------------------------------
(* str operations *)

(* s[i : i + len(p)] == p, for a 1-based i *)
MatchAt(s, p, i) == i + Len(p) - 1 <= Len(s) /\ SubSeq(s, i, i + Len(p) - 1) = p

(* p in s *)
Contains(s, p) == \E i \in 1..(Len(s) + 1) : MatchAt(s, p, i)

(* a replace that stops after the first occurrence *)
RECURSIVE ReplaceFirstOnly(_, _, _)
ReplaceFirstOnly(s, old, new) ==
    IF Len(s) < Len(old) THEN s
    ELSE IF MatchAt(s, old, 1)
         THEN new \o SubSeq(s, Len(old) + 1, Len(s))
         ELSE <<Head(s)>> \o ReplaceFirstOnly(Tail(s), old, new)

(* a replace that resumes the search one position too far *)
RECURSIVE ReplaceSkipsOne(_, _, _)
ReplaceSkipsOne(s, old, new) ==
    IF Len(s) < Len(old) THEN s
    ELSE IF MatchAt(s, old, 1)
         THEN new \o ReplaceSkipsOne(SubSeq(s, Len(old) + 2, Len(s)), old, new)
         ELSE <<Head(s)>> \o ReplaceSkipsOne(Tail(s), old, new)

(* s.replace(old, new) for a non-empty old: every occurrence, found left to
   right, the search resuming after each replaced occurrence *)
RECURSIVE Replace(_, _, _)
Replace(s, old, new) ==
    IF Len(s) < Len(old) THEN s
    ELSE IF MatchAt(s, old, 1)
         THEN new \o Replace(SubSeq(s, Len(old) + 1, Len(s)), old, new)
         ELSE <<Head(s)>> \o Replace(Tail(s), old, new)

------------------------------------------------------------------------------
(* The six guarded rules, each as the function it computes on the text. *)

Rule1(t) ==
    IF Contains(t, original_block)
    THEN Replace(t, original_block, updated_block)
    ELSE t

(* variants of the rules: first occurrence only, no guard, an anchor the
   earlier rule has already rewritten, a fallback when the anchor is missing *)
Rule2_FirstOnly(t) ==
    IF Contains(t, img_block)
    THEN ReplaceFirstOnly(t, img_block, img_updated)
    ELSE t

Rule2(t) ==
    IF Contains(t, img_block)
    THEN Replace(t, img_block, img_updated)
    ELSE t

Rule3_Unguarded(t) == Replace(t, marker, marker \o carousel_css)

Rule3_StaleAnchor(t) ==
    IF ~Contains(t, carousel_css)
    THEN Replace(t, img_block \o <<"NL">>, img_block \o <<"NL">> \o carousel_css)
    ELSE t

Rule3(t) ==
    IF ~Contains(t, carousel_css)
    THEN Replace(t, marker, marker \o carousel_css)
    ELSE t

Rule4_AppendOnMiss(t) ==
    IF ~Contains(t, carouselTimers_detector)
    THEN IF Contains(t, insert_point)
         THEN Replace(t, insert_point, insert_point \o carouselTimers_decl)
         ELSE t \o carouselTimers_decl
    ELSE t

Rule4(t) ==
    IF ~Contains(t, carouselTimers_detector)
    THEN Replace(t, insert_point, insert_point \o carouselTimers_decl)
    ELSE t

Rule5_PrependOnMiss(t) ==
    IF ~Contains(t, clearCarouselTimers_detector)
    THEN IF Contains(t, cache_marker)
         THEN Replace(t, cache_marker, cache_marker \o clearCarouselTimers_fn)
         ELSE clearCarouselTimers_fn \o t
    ELSE t

Rule5(t) ==
    IF ~Contains(t, clearCarouselTimers_detector)
    THEN Replace(t, cache_marker, cache_marker \o clearCarouselTimers_fn)
    ELSE t

(* The body of the sixth rule only binds primary_marker and get_images_fn. *)
Rule6(t) ==
    IF ~Contains(t, getProductImages_detector)
    THEN t
    ELSE t

Apply(t) == Rule6(Rule5(Rule4(Rule3(Rule2(Rule1(t))))))

------------------------------------------------------------------------------
(* Input documents: up to MaxPieces pieces, a piece being a literal of the
   script or a single fragment. *)

(* the before-blocks, the anchors and what the guards of the insertions look
   for *)
SearchedPieces ==
    { original_block, img_block, img_updated, carousel_css,
      insert_point, cache_marker, primary_marker,
      <<"NL">>, <<"DCT">>, <<"DFC">> }

Pieces ==
    SearchedPieces \cup
    { updated_block, carouselTimers_decl, clearCarouselTimers_fn,
      <<"CL">>, <<"IMH">>, <<"CSS">>, <<"DGP">>, <<"X">> }

RECURSIVE DocsOf(_, _)
DocsOf(pieces, n) ==
    IF n = 0 THEN { <<>> }
    ELSE LET prev == DocsOf(pieces, n - 1)
         IN  prev \cup { d \o p : d \in prev, p \in pieces }

Docs == DocsOf(Pieces, MaxPieces)

SearchedDocs == DocsOf(SearchedPieces, MaxPieces)

------------------------------------------------------------------------------
(* The script. *)

InitOn(docs) ==
    /\ pc = "read"
    /\ \/ exists = TRUE /\ disk \in docs
       \/ exists = FALSE /\ disk = <<>>
    /\ text = <<>>
    /\ input = <<>>
    /\ reads = 0
    /\ writes = 0
    /\ bound6 = FALSE
    /\ changed = {}

Init == InitOn(Docs)

FairInit == InitOn(SearchedDocs)

(* text = path.read_text(); a missing file raises and ends the run *)
ReadText ==
    /\ pc = "read"
    /\ IF exists
       THEN /\ text' = disk
            /\ input' = disk
            /\ reads' = reads + 1
            /\ pc' = "rule1"
       ELSE /\ pc' = "aborted"
            /\ UNCHANGED <<text, input, reads>>
    /\ UNCHANGED <<exists, disk, writes, bound6, changed>>

Step(from, to, n, new) ==
    /\ pc = from
    /\ text' = new
    /\ changed' = IF new # text THEN changed \cup {n} ELSE changed
    /\ pc' = to

UpdateProductImage ==
    /\ Step("rule1", "rule2", 1, Rule1(text))
    /\ UNCHANGED <<exists, disk, input, reads, writes, bound6>>

UpdateImgBlock ==
    /\ Step("rule2", "rule3", 2, Rule2(text))
    /\ UNCHANGED <<exists, disk, input, reads, writes, bound6>>

InsertCarouselCss ==
    /\ Step("rule3", "rule4", 3, Rule3(text))
    /\ UNCHANGED <<exists, disk, input, reads, writes, bound6>>

InsertCarouselTimers ==
    /\ Step("rule4", "rule5", 4, Rule4(text))
    /\ UNCHANGED <<exists, disk, input, reads, writes, bound6>>

InsertClearCarouselTimers ==
    /\ Step("rule5", "rule6", 5, Rule5(text))
    /\ UNCHANGED <<exists, disk, input, reads, writes, bound6>>

DefineGetProductImages ==
    /\ Step("rule6", "done", 6, Rule6(text))
    /\ bound6' = ~Contains(text, getProductImages_detector)
    /\ UNCHANGED <<exists, disk, input, reads, writes>>

Next ==
    \/ ReadText
    \/ UpdateProductImage
    \/ UpdateImgBlock
    \/ InsertCarouselCss
    \/ InsertCarouselTimers
    \/ InsertClearCarouselTimers
    \/ DefineGetProductImages

Spec == Init /\ [][Next]_vars

(* The script is straight-line code: a run that has started takes every
   step up to its last statement. Checked on the documents made of the
   searched pieces. *)
FairSpec == FairInit /\ [][Next]_vars /\ WF_vars(Next)

------------------------------------------------------------------------------
(* Vocabulary of the properties. *)

Count(s, p) == Cardinality({ i \in 1..(Len(s) + 1) : MatchAt(s, p, i) })

FirstPos(s, p) ==
    CHOOSE i \in 1..(Len(s) + 1) :
        MatchAt(s, p, i) /\ \A j \in 1..(i - 1) : ~MatchAt(s, p, j)

(* s with its first occurrence of old cut out and new put in its place *)
SubstFirst(s, old, new) ==
    LET i == FirstPos(s, old)
    IN  SubSeq(s, 1, i - 1) \o new \o SubSeq(s, i + Len(old), Len(s))

(* s with content spliced right after the first occurrence of anchor *)
SpliceAfterFirst(s, anchor, content) ==
    LET e == FirstPos(s, anchor) + Len(anchor) - 1
    IN  SubSeq(s, 1, e) \o content \o SubSeq(s, e + 1, Len(s))

(* s with content spliced right after every position where an occurrence of
   anchor ends; k runs over the positions of s *)
RECURSIVE SpliceFrom(_, _, _, _)
SpliceFrom(s, anchor, content, k) ==
    IF k > Len(s) THEN <<>>
    ELSE <<s[k]>>
         \o (IF k >= Len(anchor) /\ MatchAt(s, anchor, k - Len(anchor) + 1)
             THEN content ELSE <<>>)
         \o SpliceFrom(s, anchor, content, k + 1)

SpliceAfterEach(s, anchor, content) == SpliceFrom(s, anchor, content, 1)

RECURSIVE IsSubseq(_, _)
IsSubseq(a, b) ==
    IF a = <<>> THEN TRUE
    ELSE IF b = <<>> THEN FALSE
    ELSE IF Head(a) = Head(b) THEN IsSubseq(Tail(a), Tail(b))
    ELSE IsSubseq(a, Tail(b))

NoTargets(t) ==
    /\ ~Contains(t, original_block)
    /\ ~Contains(t, img_block)
    /\ ~Contains(t, marker)
    /\ ~Contains(t, insert_point)
    /\ ~Contains(t, cache_marker)
    /\ ~Contains(t, primary_marker)

------------------------------------------------------------------------------
(* C1: idempotence. Running the six rules in order on the text a run has
   produced yields that same text: apply(apply(T)) = apply(T). *)
C1_Idempotent == pc = "done" => Apply(text) = text

C1_Witness ==
    /\ pc = "done"
    /\ {2, 3, 4} \subseteq changed
    /\ Apply(text) = text

(* C2: the document is read once, and the final text is written back once,
   so that after the run the stored document is the text the rules produced. *)
C2_ReadOnceWriteOnce ==
    pc = "done" => reads = 1 /\ writes = 1 /\ disk = text

(* C3: a document that contains no before-block and no anchor comes out of
   the full rule sequence unchanged. *)
C3_NoOpOnAbsentTargets ==
    pc = "done" /\ NoTargets(input) => text = input

C3_Witness ==
    /\ pc = "done"
    /\ NoTargets(input)
    /\ Len(input) >= 3
    /\ ~Contains(input, carousel_css)
    /\ ~Contains(input, carouselTimers_detector)
    /\ ~Contains(input, clearCarouselTimers_detector)
    /\ bound6
    /\ text = input

(* C4 as stated: an insertion rule whose detector reports the effect absent
   splices its content once, right after the first occurrence of its anchor,
   however many occurrences the text has. *)
C4_SpliceOnceAfterFirst ==
    [][ /\ ( pc = "rule3" /\ ~Contains(text, carousel_css)
                /\ Contains(text, marker)
             => text' = SpliceAfterFirst(text, marker, carousel_css) )
        /\ ( pc = "rule4" /\ ~Contains(text, carouselTimers_detector)
                /\ Contains(text, insert_point)
             => text' = SpliceAfterFirst(text, insert_point, carouselTimers_decl) )
        /\ ( pc = "rule5" /\ ~Contains(text, clearCarouselTimers_detector)
                /\ Contains(text, cache_marker)
             => text' = SpliceAfterFirst(text, cache_marker, clearCarouselTimers_fn) )
      ]_vars

(* C4 amended: an insertion rule whose detector reports the effect absent
   splices its content right after every occurrence of its anchor and changes
   nothing else; with exactly one occurrence that is one splice, right after
   the first occurrence. *)
C4_SpliceAfterEveryAnchor ==
    [][ /\ ( pc = "rule3" /\ ~Contains(text, carousel_css)
             => /\ text' = SpliceAfterEach(text, marker, carousel_css)
                /\ ( Count(text, marker) = 1
                     => text' = SpliceAfterFirst(text, marker, carousel_css) ) )
        /\ ( pc = "rule4" /\ ~Contains(text, carouselTimers_detector)
             => /\ text' = SpliceAfterEach(text, insert_point, carouselTimers_decl)
                /\ ( Count(text, insert_point) = 1
                     => text' = SpliceAfterFirst(text, insert_point,
                                                 carouselTimers_decl) ) )
        /\ ( pc = "rule5" /\ ~Contains(text, clearCarouselTimers_detector)
             => /\ text' = SpliceAfterEach(text, cache_marker, clearCarouselTimers_fn)
                /\ ( Count(text, cache_marker) = 1
                     => text' = SpliceAfterFirst(text, cache_marker,
                                                 clearCarouselTimers_fn) ) )
      ]_vars

C4_Witness ==
    /\ pc = "rule5"
    /\ 4 \in changed
    /\ Count(input, insert_point) = 2
    /\ Count(text, insert_point \o carouselTimers_decl) = 2

(* C5 as stated: when a before-block occurs exactly once in the document, the
   text after the full rule sequence is the document with that one span
   replaced by the after-block, everything outside the span unchanged. *)
C5_LocalityOfFullSequence ==
    pc = "done" =>
        /\ ( Count(input, original_block) = 1
             => text = SubstFirst(input, original_block, updated_block) )
        /\ ( Count(input, img_block) = 1
             => text = SubstFirst(input, img_block, img_updated) )

(* C5 amended: when a before-block occurs exactly once in the document and no
   other rule changes the text, the text after the full rule sequence is the
   document with that one span replaced by the after-block, everything outside
   the span unchanged. *)
C5_LocalityWhenAlone ==
    pc = "done" =>
        /\ ( Count(input, original_block) = 1 /\ changed \subseteq {1}
             => text = SubstFirst(input, original_block, updated_block) )
        /\ ( Count(input, img_block) = 1 /\ changed \subseteq {2}
             => text = SubstFirst(input, img_block, img_updated) )

C5_Witness ==
    /\ pc = "done"
    /\ Count(input, img_block) = 1
    /\ changed = {2}
    /\ FirstPos(input, img_block) > 1
    /\ FirstPos(input, img_block) + Len(img_block) <= Len(input)
    /\ text = SubstFirst(input, img_block, img_updated)

(* C6: a document that holds the img block followed by a newline, patched or
   not, and not the carousel CSS, comes out of one run holding img_updated
   with the carousel CSS directly after it. *)
C6_OrderingDependency ==
    pc = "done"
        /\ ( Contains(input, img_block \o <<"NL">>) \/ Contains(input, marker) )
        /\ ~Contains(input, carousel_css)
    => /\ Contains(text, img_updated)
       /\ Contains(text, marker \o carousel_css)

C6_Witness ==
    /\ pc = "done"
    /\ Contains(input, img_block \o <<"NL">>)
    /\ ~Contains(input, marker)
    /\ ~Contains(input, carousel_css)
    /\ {2, 3} \subseteq changed
    /\ Contains(text, marker \o carousel_css)

(* C7: for each of the six rules, once the rule has fired its detector
   reports the effect present on the resulting text. A rule that searches a
   before-block or an anchor is taken to fire when its guard found the effect
   absent and the search succeeded; the sixth rule searches nothing and fires
   when its guard found the effect absent. *)
C7_DetectorAgreesWithAction ==
    [][ /\ ( pc = "rule1" /\ Contains(text, original_block)
             => ~Contains(text', original_block) )
        /\ ( pc = "rule2" /\ Contains(text, img_block)
             => ~Contains(text', img_block) )
        /\ ( pc = "rule3" /\ ~Contains(text, carousel_css)
                /\ Contains(text, marker)
             => Contains(text', carousel_css) )
        /\ ( pc = "rule4" /\ ~Contains(text, carouselTimers_detector)
                /\ Contains(text, insert_point)
             => Contains(text', carouselTimers_detector) )
        /\ ( pc = "rule5" /\ ~Contains(text, clearCarouselTimers_detector)
                /\ Contains(text, cache_marker)
             => Contains(text', clearCarouselTimers_detector) )
        /\ ( pc = "rule6" /\ ~Contains(text, getProductImages_detector)
             => Contains(text', getProductImages_detector) )
      ]_vars

(* C8: a rule whose before-block or anchor is not found leaves the text as it
   is, the next rule in the fixed order is evaluated, and a run that has read
   the document ends normally after the last rule. *)
C8_MissIsSilentNoOp ==
    /\ [][ /\ ( pc = "rule1" /\ ~Contains(text, original_block)
                => text' = text /\ pc' = "rule2" )
           /\ ( pc = "rule2" /\ ~Contains(text, img_block)
                => text' = text /\ pc' = "rule3" )
           /\ ( pc = "rule3" /\ ~Contains(text, marker)
                => text' = text /\ pc' = "rule4" )
           /\ ( pc = "rule4" /\ ~Contains(text, insert_point)
                => text' = text /\ pc' = "rule5" )
           /\ ( pc = "rule5" /\ ~Contains(text, cache_marker)
                => text' = text /\ pc' = "rule6" )
           /\ ( pc = "rule6" /\ ~Contains(text, primary_marker)
                => text' = text /\ pc' = "done" )
         ]_vars
    /\ ( pc = "rule1" ~> pc = "done" )

C8_Witness ==
    /\ pc = "done"
    /\ ~Contains(input, original_block)
    /\ ~Contains(input, marker)
    /\ ~Contains(input, carousel_css)
    /\ ~Contains(input, clearCarouselTimers_detector)
    /\ ~Contains(input, cache_marker)
    /\ changed = {2, 4}

(* C9: every rule only adds text: the document that was read is a subsequence
   of the text after any number of rules, and the text is never shorter than
   the document. *)
C9_InsertOnly ==
    pc \notin {"read", "aborted"} =>
        IsSubseq(input, text) /\ Len(text) >= Len(input)

C9_Witness ==
    /\ pc = "done"
    /\ {1, 2} \subseteq changed
    /\ Len(text) > Len(input)
    /\ IsSubseq(input, text)

(* C10: after the full rule sequence the text holds no occurrence of
   original_block and none of img_block, however many the document held. *)
C10_NoUnpatchedBlockSurvives ==
    pc = "done" =>
        ~Contains(text, original_block) /\ ~Contains(text, img_block)

C10_Witness ==
    /\ pc = "done"
    /\ Count(input, img_block) >= 2
    /\ Contains(input, img_block \o <<"NL">>)
    /\ {2, 3} \subseteq changed
    /\ ~Contains(text, img_block)

====
